---- MODULE Spec2Model ----
(***************************************************************************)
(* The three Playwright verification probes of the repository:             *)
(*   src/scripts/verify_ui.py               verify_ui()                    *)
(*   src/verification/verify_analysis_ui.py verify_analysis_ui()           *)
(*   src/verification/verify_manual_button.py verify_manual_button()       *)
(* Each probe is a straight-line Python function.  The model executes it   *)
(* one statement at a time; every library call may return or raise, as     *)
(* the environment (the page, the network, the disk) decides.              *)
(***************************************************************************)
EXTENDS Integers, Sequences, FiniteSets, TLC

\* ---------------------------------------------------------------- bounds
\* Number of times the same script is invoked one after the other.
MaxRuns == 2
\* Granularity of the model's clock while wait_for_selector polls, in ms.
TickMs == 2500

\* ------------------------------------------------------ program constants
\* page.wait_for_selector("text=NEURAL SCAN", timeout=5000)
AnalysisTimeoutMs == 5000
\* page.wait_for_selector("text=Filament ID"): no timeout argument, so the
\* library's default of 30 s applies.
DefaultTimeoutMs == 30000

Probes == {"verify_ui", "verify_analysis_ui", "verify_manual_button"}

\* A statement of a probe: the source line it stands on, the call it makes
\* and the call's literal argument.
Stmt(line, op, arg) == [line |-> line, op |-> op, arg |-> arg]

\* verify_ui(): the statements of the with block, in source order.
UiProg ==
  << Stmt(6,  "launch", ""),
     Stmt(8,  "new_context", ""),
     Stmt(9,  "new_page", ""),
     Stmt(12, "goto", "http://localhost:3000/"),
     Stmt(15, "screenshot", "/home/jules/verification/home_v2.png"),
     Stmt(16, "print", "Home screenshot taken"),
     Stmt(19, "click", "Manual"),
     Stmt(22, "screenshot", "/home/jules/verification/editor_v2.png"),
     Stmt(23, "print", "Editor screenshot taken"),
     Stmt(25, "close", "") >>

\* verify_analysis_ui(): the set-up statements and the try body.
AnalysisProg ==
  << Stmt(7,  "launch", ""),
     Stmt(9,  "new_context", ""),
     Stmt(10, "new_page", ""),
     Stmt(23, "print", "Navigating to home..."),
     Stmt(24, "goto", "http://localhost:3000"),
     Stmt(30, "print", "Uploading dummy image..."),
     Stmt(36, "write_fixture", "verification/dummy.png"),
     Stmt(43, "set_input_files", "verification/dummy.png"),
     Stmt(46, "print", "Waiting for Analysis View..."),
     Stmt(47, "wait", "NEURAL SCAN"),
     Stmt(50, "print", "Taking screenshot..."),
     Stmt(51, "screenshot", "verification/analysis_ui_check.png"),
     Stmt(52, "print", "Screenshot saved to verification/analysis_ui_check.png") >>

\* verify_manual_button(): the set-up statements and the try body; 10..14
\* are the if branch, 15 the else branch.
ManualProg ==
  << Stmt(6,  "launch", ""),
     Stmt(8,  "new_context", ""),
     Stmt(9,  "new_page", ""),
     Stmt(12, "print", "Navigating to home..."),
     Stmt(13, "goto", "http://localhost:3000"),
     Stmt(16, "print", "Waiting for 'Filament ID'..."),
     Stmt(17, "wait", "Filament ID"),
     Stmt(23, "print", "Checking visibility..."),
     Stmt(24, "is_visible", "Manual"),
     Stmt(25, "print", "Manual button visible."),
     Stmt(28, "scroll", "Manual"),
     Stmt(31, "print", "Taking screenshot..."),
     Stmt(32, "screenshot", "verification/manual_button_check.png"),
     Stmt(33, "print", "Screenshot saved to verification/manual_button_check.png"),
     Stmt(35, "print", "Manual button NOT visible!") >>

\* The script that is run decides the function that is called.
Prog(p) ==
  CASE p = "verify_ui" -> UiProg
    [] p = "verify_analysis_ui" -> AnalysisProg
    [] p = "verify_manual_button" -> ManualProg

\* The indices of Prog(p) that stand inside the try block.  verify_ui has
\* no try statement at all.  The first variant leaves every probe without
\* its try statement.
TryRangeNone(p) == {}
TryRange(p) ==
  CASE p = "verify_ui" -> {}
    [] p = "verify_analysis_ui" -> 4 .. 13
    [] p = "verify_manual_button" -> 4 .. 15

HasTry(p) == TryRange(p) # {}

\* The file the except clause screenshots to (verify_ui has none).  The
\* first variant has the handler write over the probe's own success
\* screenshot.
ErrorPathClobber(p) ==
  CASE p = "verify_ui" -> ""
    [] p = "verify_analysis_ui" -> "verification/analysis_ui_check.png"
    [] p = "verify_manual_button" -> "verification/manual_button_check.png"
ErrorPath(p) ==
  CASE p = "verify_ui" -> ""
    [] p = "verify_analysis_ui" -> "verification/error_analysis.png"
    [] p = "verify_manual_button" -> "verification/error.png"

\* except Exception as e:  print(f"Error: {e}"); page.screenshot(path=...)
AnalysisHandler ==
  << Stmt(55, "print_error", ""),
     Stmt(56, "screenshot", ErrorPath("verify_analysis_ui")) >>
ManualHandler ==
  << Stmt(38, "print_error", ""),
     Stmt(39, "screenshot", ErrorPath("verify_manual_button")) >>
Handler(p) ==
  CASE p = "verify_ui" -> << >>
    [] p = "verify_analysis_ui" -> AnalysisHandler
    [] p = "verify_manual_button" -> ManualHandler

\* finally:  browser.close()
AnalysisFinally == << Stmt(58, "close", "") >>
ManualFinally == << Stmt(41, "close", "") >>
Finally(p) ==
  CASE p = "verify_ui" -> << >>
    [] p = "verify_analysis_ui" -> AnalysisFinally
    [] p = "verify_manual_button" -> ManualFinally

\* The statement executed after statement i of Prog(p) returns normally.
\* In verify_manual_button the if/else on is_visible() (statement 9)
\* selects statements 10..14 or statement 15.  The variants: the else
\* branch missing, a screenshot followed by a retry of the statement
\* before it, a screenshot call left out.
SuccNoBranch(p, i, v) == IF p = "verify_manual_button" /\ i = 14 THEN 16 ELSE i + 1
SuccRetry(p, i, v) == IF Prog(p)[i].op = "screenshot" THEN i - 1 ELSE i + 1
SuccSkipShot(p, i, v) ==
  IF i < Len(Prog(p)) /\ Prog(p)[i + 1].op = "screenshot" THEN i + 2 ELSE i + 1
Succ(p, i, v) ==
  IF p = "verify_manual_button" /\ i = 9 /\ v = "hidden" THEN 15
  ELSE IF p = "verify_manual_button" /\ i = 14 THEN 16
  ELSE i + 1

\* The timeout of the probe's wait_for_selector call.
StepTimeout(p) ==
  IF p = "verify_analysis_ui" THEN AnalysisTimeoutMs ELSE DefaultTimeoutMs

\* The calls that can raise because of the environment.  print cannot;
\* wait_for_selector raises by timing out, which the clock decides;
\* browser.close() is taken to return.
Fallible == {"launch", "new_context", "new_page", "goto", "click",
             "write_fixture", "set_input_files", "is_visible", "scroll",
             "screenshot"}

\* str(e) of the exception a call raises.
ErrText(p, st) ==
  IF st.op = "wait" THEN "Timeout exceeded waiting for " \o st.arg
  ELSE st.op \o " failed"

\* When the awaited text can be rendered: after one poll, or after three
\* (past the 5 s timeout, within the default one).
Delays == {TickMs, 3 * TickMs}

HasOp(p, op) == \E i \in 1 .. Len(Prog(p)) : Prog(p)[i].op = op

\* What the environment does during one run of probe p:
\*   failAt        index of the statement of Prog(p) whose call raises (0: none)
\*   errShotFails  the screenshot in the except clause raises
\*   appears/delay whether and when the awaited text is rendered
\*   visible       what manual_btn.is_visible() returns
\* Fields a probe never reads are held at one value.
Envs(p) ==
  { e \in [failAt : 0 .. Len(Prog(p)), errShotFails : BOOLEAN,
           appears : BOOLEAN, delay : Delays, visible : BOOLEAN] :
      /\ e.failAt # 0 => Prog(p)[e.failAt].op \in Fallible
      /\ ~HasTry(p) => ~e.errShotFails
      /\ ~HasOp(p, "wait") => e.appears
      /\ (~HasOp(p, "wait") \/ ~e.appears) => e.delay = TickMs
      /\ ~HasOp(p, "is_visible") => e.visible }

\* ----------------------------------------------------------------- state
VARIABLES
  probe,         \* the script being run
  run,           \* 1 for the first invocation, 2 for the next, ...
  env,           \* the environment's behaviour during this run
  sameEnv,       \* this run's environment equals the previous run's
  prevExisting,  \* the paths on disk when the previous run ended
  prevOutcome,   \* how the previous run ended
  pc,            \* [blk, i]: the statement about to execute
  elapsed,       \* ms spent so far inside wait_for_selector
  browser,       \* "none", "open" (launched), "closed" (browser.close() ran)
  files,         \* the disk: path -> [run, line] of the statement that wrote it
  out,           \* lines printed by this run
  trace,         \* source lines of the statements this run has attempted
  caught,        \* str(e) of the exception bound by the except clause, or ""
  exc,           \* str(e) of the exception propagating out of the function, or ""
  failedAt,      \* index in Prog(probe) of the statement that raised, or 0
  errShots,      \* screenshots to ErrorPath(probe) attempted by this run
  vis            \* result of is_visible(): "unknown", "visible", "hidden"

runVars == << probe, run, env, sameEnv, prevExisting, prevOutcome >>
vars == << probe, run, env, sameEnv, prevExisting, prevOutcome, pc, elapsed,
           browser, files, out, trace, caught, exc, failedAt, errShots, vis >>

Start == [blk |-> "body", i |-> 1]
Ended == [blk |-> "ended", i |-> 0]

Block(p, blk) ==
  CASE blk = "body" -> Prog(p)
    [] blk = "except" -> Handler(p)
    [] blk = "finally" -> Finally(p)
    [] OTHER -> << >>

Cur == Block(probe, pc.blk)[pc.i]
At(op) == pc.blk # "ended" /\ Cur.op = op

\* Control after the statement at c returns normally.  Leaving the try
\* body or the except clause enters the finally clause.
AfterReturn(p, c, v) ==
  CASE c.blk = "body" ->
         LET j == Succ(p, c.i, v) IN
         IF j <= Len(Prog(p)) THEN [blk |-> "body", i |-> j]
         ELSE IF HasTry(p) THEN [blk |-> "finally", i |-> 1]
         ELSE Ended
    [] c.blk = "except" ->
         IF c.i < Len(Handler(p)) THEN [blk |-> "except", i |-> c.i + 1]
         ELSE [blk |-> "finally", i |-> 1]
    [] c.blk = "finally" ->
         IF c.i < Len(Finally(p)) THEN [blk |-> "finally", i |-> c.i + 1]
         ELSE Ended

\* An exception raised inside the try body is caught by except Exception.
Caught(p, c) == c.blk = "body" /\ c.i \in TryRange(p)

\* Control after the statement at c raises.  An exception raised in the
\* except clause runs the finally clause and then propagates; one raised
\* outside any try leaves the function at once.
AfterRaise(p, c) ==
  IF Caught(p, c) THEN [blk |-> "except", i |-> 1]
  ELSE IF c.blk = "except" THEN [blk |-> "finally", i |-> 1]
  ELSE Ended

\* Whether the environment makes the call at pc raise.
Fails ==
  \/ pc.blk = "body" /\ env.failAt = pc.i
  \/ pc.blk = "except" /\ Cur.op = "screenshot" /\ env.errShotFails

Return ==
  /\ pc' = AfterReturn(probe, pc, vis')
  /\ trace' = Append(trace, Cur.line)
  /\ UNCHANGED << caught, exc, failedAt >>

Raise(msg) ==
  /\ pc' = AfterRaise(probe, pc)
  /\ trace' = Append(trace, Cur.line)
  /\ failedAt' = IF pc.blk = "body" THEN pc.i ELSE failedAt
  /\ caught' = IF Caught(probe, pc) THEN msg ELSE caught
  /\ exc' = IF Caught(probe, pc) THEN exc ELSE msg

\* open(path, "wb") and page.screenshot(path=...) create the file or
\* replace its contents.  The first variant writes beside an existing file
\* instead of over it.
WriteFileNoClobber(fs, path, c) ==
  LET q == IF path \in DOMAIN fs THEN path \o ".1" ELSE path IN
  [r \in DOMAIN fs \cup {q} |-> IF r = q THEN c ELSE fs[r]]
WriteFile(fs, path, c) ==
  [r \in DOMAIN fs \cup {path} |-> IF r = path THEN c ELSE fs[r]]

\* How a finished run ended.
Outcome == [exc |-> exc, caught |-> caught]

\* ------------------------------------------------------------------ init
Init ==
  /\ probe \in Probes
  /\ env \in Envs(probe)
  /\ run = 1
  /\ sameEnv = FALSE
  /\ prevExisting = {}
  /\ prevOutcome = [exc |-> "", caught |-> ""]
  /\ pc = Start
  /\ elapsed = 0
  /\ browser = "none"
  /\ files = << >>
  /\ out = << >>
  /\ trace = << >>
  /\ caught = ""
  /\ exc = ""
  /\ failedAt = 0
  /\ errShots = 0
  /\ vis = "unknown"

\* --------------------------------------------------------------- actions
\* browser = p.chromium.launch(headless=True)
DoLaunch ==
  /\ At("launch")
  /\ IF Fails THEN Raise(ErrText(probe, Cur)) /\ UNCHANGED browser
     ELSE Return /\ browser' = "open"
  /\ UNCHANGED << runVars, elapsed, files, out, errShots, vis >>

\* A call whose only effect on the modelled state is to return or raise.
Call(op) ==
  /\ At(op)
  /\ IF Fails THEN Raise(ErrText(probe, Cur)) ELSE Return
  /\ UNCHANGED << runVars, elapsed, browser, files, out, errShots, vis >>

\* context = browser.new_context(viewport=...)
DoNewContext == Call("new_context")
\* page = context.new_page()
DoNewPage == Call("new_page")
\* page.goto(url)
DoGoto == Call("goto")
\* page.get_by_text("Manual").click()
DoClick == Call("click")
\* file_input.set_input_files("verification/dummy.png")
DoSetInputFiles == Call("set_input_files")
\* manual_btn.scroll_into_view_if_needed()
DoScroll == Call("scroll")

\* print(...)
DoPrint ==
  /\ At("print")
  /\ out' = Append(out, Cur.arg)
  /\ Return
  /\ UNCHANGED << runVars, elapsed, browser, files, errShots, vis >>

\* print(f"Error: {e}")
DoPrintError ==
  /\ At("print_error")
  /\ out' = Append(out, "Error: " \o caught)
  /\ Return
  /\ UNCHANGED << runVars, elapsed, browser, files, errShots, vis >>

\* with open("verification/dummy.png", "wb") as f: f.write(...)
DoWriteFixture ==
  /\ At("write_fixture")
  /\ IF Fails THEN Raise(ErrText(probe, Cur)) /\ UNCHANGED files
     ELSE Return /\ files' = WriteFile(files, Cur.arg, [run |-> run, line |-> Cur.line])
  /\ UNCHANGED << runVars, elapsed, browser, out, errShots, vis >>

\* page.screenshot(path=...), in the body or in the except clause
DoScreenshot ==
  /\ At("screenshot")
  /\ errShots' = errShots + (IF Cur.arg = ErrorPath(probe) THEN 1 ELSE 0)
  /\ IF Fails THEN Raise(ErrText(probe, Cur)) /\ UNCHANGED files
     ELSE Return /\ files' = WriteFile(files, Cur.arg, [run |-> run, line |-> Cur.line])
  /\ UNCHANGED << runVars, elapsed, browser, out, vis >>

\* page.wait_for_selector: the text is there
WaitFound ==
  /\ At("wait")
  /\ elapsed < StepTimeout(probe)
  /\ env.appears /\ elapsed >= env.delay
  /\ Return
  /\ UNCHANGED << runVars, elapsed, browser, files, out, errShots, vis >>

\* page.wait_for_selector: not there yet, keep polling
WaitTick ==
  /\ At("wait")
  /\ elapsed < StepTimeout(probe)
  /\ ~(env.appears /\ elapsed >= env.delay)
  /\ elapsed' = elapsed + TickMs
  /\ UNCHANGED << runVars, pc, browser, files, out, trace, caught, exc,
                  failedAt, errShots, vis >>

\* page.wait_for_selector: the timeout elapsed, TimeoutError is raised
WaitTimeout ==
  /\ At("wait")
  /\ elapsed >= StepTimeout(probe)
  /\ Raise(ErrText(probe, Cur))
  /\ UNCHANGED << runVars, elapsed, browser, files, out, errShots, vis >>

\* if manual_btn.is_visible():
DoIsVisible ==
  /\ At("is_visible")
  /\ IF Fails THEN Raise(ErrText(probe, Cur)) /\ UNCHANGED vis
     ELSE vis' = (IF env.visible THEN "visible" ELSE "hidden") /\ Return
  /\ UNCHANGED << runVars, elapsed, browser, files, out, errShots >>

\* browser.close()
DoClose ==
  /\ At("close")
  /\ browser' = "closed"
  /\ Return
  /\ UNCHANGED << runVars, elapsed, files, out, errShots, vis >>

\* The script is invoked again; the disk keeps what the last run left.
Rerun ==
  /\ pc = Ended
  /\ run < MaxRuns
  /\ run' = run + 1
  /\ env' \in Envs(probe)
  /\ sameEnv' = (env' = env)
  /\ prevExisting' = DOMAIN files
  /\ prevOutcome' = Outcome
  /\ pc' = Start
  /\ elapsed' = 0
  /\ browser' = "none"
  /\ out' = << >>
  /\ trace' = << >>
  /\ caught' = ""
  /\ exc' = ""
  /\ failedAt' = 0
  /\ errShots' = 0
  /\ vis' = "unknown"
  /\ UNCHANGED << probe, files >>

\* One statement of the running probe.
Step ==
  \/ DoLaunch \/ DoNewContext \/ DoNewPage \/ DoGoto \/ DoClick
  \/ DoSetInputFiles \/ DoScroll \/ DoPrint \/ DoPrintError
  \/ DoWriteFixture \/ DoScreenshot \/ WaitFound \/ WaitTick
  \/ WaitTimeout \/ DoIsVisible \/ DoClose

Next == Step \/ Rerun

Spec == Init /\ [][Next]_vars

\* The interpreter keeps executing the function until it returns or raises.
FairSpec == Spec /\ WF_vars(Step)

\* ---------------------------------------------------------------- claims
Done == pc = Ended

\* The steps of a probe's sequence: navigate, click, fixture write, upload,
\* wait-for-text, screenshot.
StepOps == {"goto", "click", "write_fixture", "set_input_files", "wait",
            "screenshot"}

\* A step of the sequence raised during this run.
StepFailed == failedAt # 0 /\ Prog(probe)[failedAt].op \in StepOps

\* The paths the probe's Screenshot steps write on success.
SuccessShots(p) ==
  { Prog(p)[i].arg : i \in { j \in 1 .. Len(Prog(p)) : Prog(p)[j].op = "screenshot" } }

\* Paths written by this run (by any statement / by a success Screenshot step).
WrittenNow == { q \in DOMAIN files : files[q].run = run }
ShotsNow == WrittenNow \cap SuccessShots(probe)

InTrace(line) == \E k \in 1 .. Len(trace) : trace[k] = line
Printed(text) == \E k \in 1 .. Len(out) : out[k] = text

\* C1: once the browser is launched, no run of any of the three probes ends
\* (all steps succeeded, a step raised, or the error screenshot raised) with
\* the session not closed by browser.close().
C1_ClosedOnEveryExit ==
  (Done /\ browser # "none" /\ (failedAt = 0 \/ StepFailed)) => browser = "closed"

\* C2: in each of the three probes a failure raised by a step is caught
\* inside the function: the run ends with no exception propagating.
C2_StepFailureCaught == (Done /\ StepFailed) => exc = ""

\* C3: when a step failed and the error screenshot in the handler fails
\* too, that second failure is swallowed and the probe returns normally.
C3_ErrorShotFailureSwallowed ==
  (Done /\ caught # "" /\ errShots = 1 /\ env.errShotFails) => exc = ""

\* C4: in each of the three probes, when a step fails, no later step of the
\* sequence runs, exactly one screenshot to the error path is attempted and
\* a line "Error: <message>" is printed.
C4_FailureHandling ==
  (Done /\ StepFailed) =>
     /\ \A j \in failedAt + 1 .. Len(Prog(probe)) : ~InTrace(Prog(probe)[j].line)
     /\ errShots = 1
     /\ Printed("Error: " \o ErrText(probe, Prog(probe)[failedAt]))

\* The number of Screenshot steps in the probe's sequence.
NumShotSteps(p) == Cardinality(SuccessShots(p))

\* C5 as claimed: a run in which no step fails ends in success off the
\* error path, having written as many screenshots as the probe has
\* Screenshot steps (2, 1, 1) and no error screenshot.
C5_SuccessCountOriginal ==
  (Done /\ failedAt = 0) =>
     /\ exc = "" /\ caught = "" /\ errShots = 0
     /\ Cardinality(ShotsNow) = NumShotSteps(probe)
     /\ ErrorPath(probe) \notin WrittenNow

\* C5 amended: as claimed, except that verify_manual_button writes its one
\* screenshot only when is_visible() returned True, and none otherwise.
C5_SuccessCount ==
  (Done /\ failedAt = 0) =>
     /\ exc = "" /\ caught = "" /\ errShots = 0
     /\ Cardinality(ShotsNow) = (IF vis = "hidden" THEN 0 ELSE NumShotSteps(probe))
     /\ NumShotSteps("verify_ui") = 2
     /\ NumShotSteps("verify_analysis_ui") = 1
     /\ NumShotSteps("verify_manual_button") = 1
     /\ ErrorPath(probe) \notin WrittenNow

C5_Witness ==
  Done /\ failedAt = 0 /\ probe = "verify_ui" /\ Cardinality(ShotsNow) = 2

\* This run's wait_for_selector timed out.
TimedOut ==
  failedAt # 0 /\ Prog(probe)[failedAt].op = "wait"
  /\ caught = ErrText(probe, Prog(probe)[failedAt])

\* C6 as claimed, its final result: a run whose wait timed out ends closed,
\* with exactly one error screenshot written and no success screenshot.
C6_TimeoutResultOriginal ==
  (Done /\ TimedOut) =>
     /\ browser = "closed"
     /\ errShots = 1 /\ ErrorPath(probe) \in WrittenNow
     /\ ShotsNow = {}

\* C6 amended: when the awaited text never appears, the wait ends by
\* timeout and the run ends on the error path with the session closed, one
\* error screenshot attempted (written unless that screenshot call itself
\* raises) and no success screenshot written.
C6_TimeoutEnds ==
  (At("wait") /\ ~env.appears) ~>
     ( /\ Done /\ TimedOut
       /\ browser = "closed"
       /\ errShots = 1
       /\ (ErrorPath(probe) \in WrittenNow <=> ~env.errShotFails)
       /\ ShotsNow = {} )

C6_Witness ==
  Done /\ TimedOut /\ ~env.appears /\ browser = "closed"
  /\ ErrorPath(probe) \in WrittenNow

\* The statement on line b is attempted only after the one on line a.
Precedes(a, b) ==
  \A k \in 1 .. Len(trace) :
     trace[k] = b => \E m \in 1 .. k - 1 : trace[m] = a

\* C7: within a run the statements are attempted in source order, each at
\* most once; in verify_ui home screenshot, click, editor screenshot come in
\* that order, in verify_analysis_ui goto, fixture write, upload, wait,
\* screenshot.
C7_InOrderOnce ==
  /\ \A a, b \in 1 .. Len(trace) : a < b => trace[a] < trace[b]
  /\ probe = "verify_ui" => Precedes(15, 19) /\ Precedes(19, 22)
  /\ probe = "verify_analysis_ui" =>
       Precedes(24, 36) /\ Precedes(36, 43) /\ Precedes(43, 47) /\ Precedes(47, 51)

C7_Witness ==
  /\ Done /\ probe = "verify_analysis_ui" /\ failedAt = 0
  /\ InTrace(24) /\ InTrace(36) /\ InTrace(43) /\ InTrace(47) /\ InTrace(51)

\* C8: once a step has failed, no transition removes or changes a success
\* screenshot that is on disk.
C8_SuccessShotsKept ==
  [][ failedAt' # 0 =>
        \A q \in DOMAIN files \cap SuccessShots(probe) :
           q \in DOMAIN files' /\ files'[q] = files[q] ]_vars

C8_Witness ==
  /\ Done /\ failedAt # 0
  /\ \E q \in ShotsNow : Prog(probe)[failedAt].line > files[q].line

\* C9: a run under the same environment behaviour as the run before it
\* leaves the same set of paths on disk and ends the same way.
C9_RerunSamePaths ==
  (Done /\ run > 1 /\ sameEnv) =>
     /\ DOMAIN files = prevExisting
     /\ Outcome = prevOutcome

C9_Witness ==
  Done /\ run > 1 /\ sameEnv /\ Cardinality(WrittenNow) >= 2

\* C10: in verify_manual_button, when is_visible() returns False the run
\* prints "Manual button NOT visible!", writes no file, takes neither the
\* screenshot branch nor the error path, raises nothing and closes the
\* session.
C10_HiddenButton ==
  (Done /\ vis = "hidden") =>
     /\ probe = "verify_manual_button"
     /\ Printed("Manual button NOT visible!")
     /\ ~Printed("Manual button visible.")
     /\ WrittenNow = {}
     /\ errShots = 0
     /\ exc = "" /\ caught = ""
     /\ browser = "closed"

C10_Witness == Done /\ vis = "hidden" /\ run = 1

====
